---- MODULE Spec2Model ----
(***************************************************************************)
(* Compliance evidence automation: a model of collect.py (the collection   *)
(* run: configuration, workspace, the two worker pools, sealing) and of    *)
(* generate_summary.py (the summary / archive / manifest pass).            *)
(*                                                                         *)
(* Spec         one run of collect.py main()                               *)
(* SpecSummary  one run of generate_summary.py main(output_path)           *)
(***************************************************************************)
EXTENDS Integers, Sequences, FiniteSets

VARIABLES
    pc,          \* collect.py main(): the statement main is at
    exitCode,    \* process exit status, -1 while the process runs
    exitCause,   \* why the process ended: "", "normal", "config", "io", "archive"
    dirs,        \* directories of the workspace that exist
    files,       \* evidence files of the workspace that exist
    log,         \* records written to collect.log: <<level, message, subject>>
    stdout,      \* what main printed, in order
    localList,   \* local_collectors (collect.py:212)
    awsList,     \* aws_collectors (collect.py:224)
    localTasks,  \* the futures of the local pool, in submission order
    awsTasks,    \* the futures of the AWS pool, in submission order
    zipFile,     \* zip_evidence's return value: "unset", "None" or the archive
    spc,         \* generate_summary.py main(): the statement main is at
    outputPath,  \* sys.argv[1] as a Path: its components, <<>> for "."
    clock,       \* datetime.now(), in seconds
    wsFiles,     \* evidence files present in the workspace the pass is given
    summaryMd,   \* summary.md: <<>> while absent, else <<the five findings>>
    baseFiles,   \* archives in output_path.parent: name -> content
    archivePath, \* main's archive_path: <<>> until create_archive returns
    checksum,    \* main's checksum: <<>> until sha256_checksum returns
    manifest,    \* manifest.txt: the set of its lines, {} while absent
    sumExit,     \* exit status of the summary pass, -1 while it runs
    fpc,         \* a derivation of the summary called on its own: "off", "call", "returned"
    fname,       \* the derivation called
    farg,        \* the file it is given
    fresult      \* what it returned, <<>> before it returns

collectVars == <<pc, exitCode, exitCause, dirs, files, log, stdout,
                 localList, awsList, localTasks, awsTasks, zipFile>>

sumVars == <<spc, outputPath, clock, wsFiles, summaryMd, baseFiles, archivePath, checksum,
             manifest, sumExit>>

pureVars == <<fpc, fname, farg, fresult>>

vars == <<collectVars, sumVars, pureVars>>

----------------------------------------------------------------------------
(* Bounds of the model *)

\* longest collector list (local or AWS) a run is given
MaxList == 2

\* longest local list of a run that overfills the local pool
MaxLocalPoolList == 5
\* longest AWS list of a run that overfills the AWS pool
MaxAwsPoolList == 4

\* last second of the modelled clock
MaxClock == 1
\* longest archive, in bytes
MaxArchiveLen == 3
\* bytes read per f.read(4096), scaled down to the modelled archive lengths
BlockSize == 2
\* number of values of the modelled digest
HashMod == 7
\* largest count a present evidence file yields
MaxCount == 1
\* most security groups in security_groups.json
MaxGroups == 2
\* longest crontab.txt, in characters
MaxCrontabLen == 3

(* Program constants *)

\* ThreadPoolExecutor(max_workers=4), the local pool
LocalMaxWorkers == 4
\* ThreadPoolExecutor(max_workers=3), the AWS pool
AwsMaxWorkers == 3

----------------------------------------------------------------------------
(* Collector names *)

\* the names run_local_collector dispatches on
LocalKnown == {"uname", "processes", "crontab", "packages"}
\* the names run_aws_collector dispatches on
AwsKnown == {"s3", "security_groups", "iam_users"}

\* names the modelled runs are given: known ones and a misspelt one
LocalNames == {"crontab", "packages", "does_not_exist"}
AwsNames == {"s3", "does_not_exist"}

RECURSIVE SeqsUpTo(_, _)
SeqsUpTo(S, n) ==
    IF n = 0 THEN {<<>>}
    ELSE LET shorter == SeqsUpTo(S, n - 1)
         IN  shorter \cup {Append(s, x) : s \in shorter, x \in S}

LocalLists == SeqsUpTo(LocalNames, MaxList)
AwsLists == SeqsUpTo(AwsNames, MaxList)

\* lists longer than the pools are wide: one name given many times
PoolLocalLists == SeqsUpTo({"uname"}, MaxLocalPoolList)
PoolAwsLists == SeqsUpTo({"does_not_exist"}, MaxAwsPoolList)

----------------------------------------------------------------------------
(* What a collector's external call can do.  "none": no external call.     *)

\* subprocess.run + open/write inside run_command
CommandOutcomes == {"ok", "nonzero", "exec_error"}
\* boto3 session/client creation, the API call, the write of the result
AwsCallOutcomes == {"ok", "client_fail", "api_error", "other_error"}

LocalExt(collector) ==
    IF collector = "packages" THEN CommandOutcomes \cup {"no_pkg_mgr"}
    ELSE IF collector \in LocalKnown THEN CommandOutcomes
    ELSE {"none"}

AwsExt(collector) ==
    IF collector \in AwsKnown THEN AwsCallOutcomes ELSE {"none"}

\* the external call of a collector failed
ExtFailed(ext) == ext \in {"nonzero", "exec_error", "client_fail", "api_error", "other_error"}

----------------------------------------------------------------------------
(* Effects of a collector: the files it writes, the records it logs, and   *)
(* whether it raised.                                                      *)

NoEffect == [files |-> {}, logs |-> {}, raised |-> FALSE]

\* run_command: everything inside one try/except Exception
run_command(command, output_file, dirOk, ext) ==
    IF ext = "exec_error" \/ ~dirOk
    THEN [files |-> {}, logs |-> {<<"ERROR", "Failed to run command", command>>},
          raised |-> FALSE]
    ELSE [files |-> {output_file}, logs |-> {<<"INFO", "Collector saved", output_file>>},
          raised |-> FALSE]

collect_uname(dirOk, ext) == run_command("uname -a", "local/uname.txt", dirOk, ext)

collect_processes(dirOk, ext) == run_command("ps aux", "local/processes.txt", dirOk, ext)

collect_crontab(dirOk, ext) == run_command("crontab -l", "local/crontab.txt", dirOk, ext)

collect_packages(dirOk, ext) ==
    IF ext = "no_pkg_mgr"
    THEN [files |-> {}, logs |-> {<<"WARNING", "No package manager found.", "packages">>},
          raised |-> FALSE]
    ELSE run_command("dpkg -l", "local/packages.txt", dirOk, ext)

\* aws_client returns None on any exception; the collector then returns;
\* NoCredentialsError / ClientError are logged; any other exception (another
\* botocore error, an OSError of the write) leaves the collector
AwsCollect(service, output_file, message, dirOk, ext) ==
    IF ext = "client_fail"
    THEN [files |-> {}, logs |-> {<<"ERROR", "Failed to create AWS client", service>>},
          raised |-> FALSE]
    ELSE IF ext = "api_error"
    THEN [files |-> {}, logs |-> {<<"ERROR", message, service>>}, raised |-> FALSE]
    ELSE IF ext = "other_error" \/ ~dirOk
    THEN [files |-> {}, logs |-> {}, raised |-> TRUE]
    ELSE [files |-> {output_file}, logs |-> {<<"INFO", "collected", service>>},
          raised |-> FALSE]

collect_s3_buckets(dirOk, ext) ==
    AwsCollect("s3", "aws/s3_buckets.json", "Error collecting S3 buckets", dirOk, ext)

collect_security_groups(dirOk, ext) ==
    AwsCollect("ec2", "aws/security_groups.json", "Error collecting security groups",
               dirOk, ext)

collect_iam_users(dirOk, ext) ==
    AwsCollect("iam", "aws/iam_users.json", "Error collecting IAM users", dirOk, ext)

\* the if/elif chain of run_local_collector: no else branch
LocalDispatch(collector, dirOk, ext) ==
    IF collector = "uname" THEN collect_uname(dirOk, ext)
    ELSE IF collector = "processes" THEN collect_processes(dirOk, ext)
    ELSE IF collector = "crontab" THEN collect_crontab(dirOk, ext)
    ELSE IF collector = "packages" THEN collect_packages(dirOk, ext)
    ELSE NoEffect

\* the if/elif chain of run_aws_collector: no else branch
AwsDispatch(collector, dirOk, ext) ==
    IF collector = "s3" THEN collect_s3_buckets(dirOk, ext)
    ELSE IF collector = "security_groups" THEN collect_security_groups(dirOk, ext)
    ELSE IF collector = "iam_users" THEN collect_iam_users(dirOk, ext)
    ELSE NoEffect

\* the output file a task of the given name is bound to write ("" for none)
LocalOutputFile(collector) ==
    IF collector = "uname" THEN "local/uname.txt"
    ELSE IF collector = "processes" THEN "local/processes.txt"
    ELSE IF collector = "crontab" THEN "local/crontab.txt"
    ELSE IF collector = "packages" THEN "local/packages.txt"
    ELSE ""

AwsOutputFile(collector) ==
    IF collector = "s3" THEN "aws/s3_buckets.json"
    ELSE IF collector = "security_groups" THEN "aws/security_groups.json"
    ELSE IF collector = "iam_users" THEN "aws/iam_users.json"
    ELSE ""

\* What the wrapped task hands to its future: the effects and the outcomes
\* returned, each a pair <<collector, error>> with error "None" or "Exception".
Wrapped(collector, eff, message) ==
    IF eff.raised
    THEN [files |-> eff.files,
          logs |-> eff.logs \cup {<<"ERROR", message, collector>>},
          outcome |-> <<  <<collector, "Exception">>  >>]
    ELSE [files |-> eff.files, logs |-> eff.logs,
          outcome |-> <<  <<collector, "None">>  >>]

\* a wrapper without its try/except: the exception stays in the future
Unwrapped(collector, eff) ==
    IF eff.raised
    THEN [files |-> eff.files, logs |-> eff.logs, outcome |-> <<>>]
    ELSE [files |-> eff.files, logs |-> eff.logs,
          outcome |-> <<  <<collector, "None">>  >>]

run_local_collector(collector, dirOk, ext) ==
    Wrapped(collector, LocalDispatch(collector, dirOk, ext), "Local collector failed")

run_aws_collector_nocatch(collector, dirOk, ext) ==
    Unwrapped(collector, AwsDispatch(collector, dirOk, ext))

run_aws_collector(collector, dirOk, ext) ==
    Wrapped(collector, AwsDispatch(collector, dirOk, ext), "AWS collector failed")

----------------------------------------------------------------------------
(* The futures of a pool *)

\* one future per entry, duplicates dropped
Submit_dedup(names) ==
    LET keep == {i \in 1..Len(names) : \A j \in 1..(i - 1) : names[j] # names[i]}
        F[k \in 0..Len(names)] ==
            IF k = 0 THEN <<>>
            ELSE IF k \in keep
                 THEN Append(F[k - 1], [name |-> names[k], st |-> "pending", runs |-> 0,
                                        ext |-> "none", outcomes |-> <<>>])
                 ELSE F[k - 1]
    IN  F[Len(names)]

\* {executor.submit(run_x_collector, c, ...): c for c in collectors}:
\* one future per list entry (the dict is keyed by the future)
Submit(names) ==
    [i \in 1..Len(names) |->
        [name |-> names[i], st |-> "pending", runs |-> 0, ext |-> "none",
         outcomes |-> <<>>]]

Running(tasks) == {i \in 1..Len(tasks) : tasks[i].st = "running"}
Unfinished(tasks) == {i \in 1..Len(tasks) : tasks[i].st # "done"}

\* a pool that starts a thread for every work item
CanStart_unbounded(tasks, i, maxWorkers) ==
    /\ i \in 1..Len(tasks)
    /\ tasks[i].st = "pending"
    /\ \A j \in 1..(i - 1) : tasks[j].st # "pending"

\* a worker takes the oldest queued work item, if a worker is free
CanStart(tasks, i, maxWorkers) ==
    /\ i \in 1..Len(tasks)
    /\ tasks[i].st = "pending"
    /\ \A j \in 1..(i - 1) : tasks[j].st # "pending"
    /\ Cardinality(Running(tasks)) < maxWorkers

Started(t) == [t EXCEPT !.st = "running", !.runs = @ + 1]

Finished(t, ext, r) ==
    [t EXCEPT !.st = "done", !.ext = ext, !.outcomes = @ \o r.outcome]

----------------------------------------------------------------------------
(* collect.py main() *)

\* the state of a process that has not read or written anything yet
CollectStart(at) ==
    /\ pc = at
    /\ exitCode = -1
    /\ exitCause = ""
    /\ dirs = {}
    /\ files = {}
    /\ log = {}
    /\ stdout = <<>>
    /\ localList = <<>>
    /\ awsList = <<>>
    /\ localTasks = <<>>
    /\ awsTasks = <<>>
    /\ zipFile = "unset"

SummaryStart(at, path, present) ==
    /\ spc = at
    /\ outputPath = path
    /\ clock = 0
    /\ wsFiles = present
    /\ summaryMd = <<>>
    /\ baseFiles = <<>>
    /\ archivePath = <<>>
    /\ checksum = <<>>
    /\ manifest = {}
    /\ sumExit = -1

\* no derivation of the summary is called on its own
PureOff ==
    /\ fpc = "off"
    /\ fname = ""
    /\ farg = <<>>
    /\ fresult = <<>>

\* collect.py is started; generate_summary.py is not part of the run
Init == CollectStart("load_config") /\ SummaryStart("off", <<>>, {}) /\ PureOff

\* an uncaught exception or sys.exit(1) ends the process
Crash(cause) ==
    /\ pc' = "crashed"
    /\ exitCode' = 1
    /\ exitCause' = cause

\* load_config (202): a missing file is sys.exit(1); an unreadable or
\* unparsable one is an exception nobody catches
LoadConfig ==
    /\ pc = "load_config"
    /\ \E status \in {"ok", "missing", "unreadable"} :
          IF status = "ok"
          THEN pc' = "base_dir" /\ UNCHANGED <<exitCode, exitCause>>
          ELSE Crash("config")
    /\ UNCHANGED <<dirs, files, log, stdout, localList, awsList, localTasks,
                   awsTasks, zipFile>>
    /\ UNCHANGED <<sumVars, pureVars>>

\* base_output = args.output or config["output"]["base_dir"] (203)
ReadBaseDir ==
    /\ pc = "base_dir"
    /\ \E argOutput \in BOOLEAN, inConfig \in BOOLEAN :
          IF argOutput \/ inConfig
          THEN pc' = "create_output_dir" /\ UNCHANGED <<exitCode, exitCause>>
          ELSE Crash("config")
    /\ UNCHANGED <<dirs, files, log, stdout, localList, awsList, localTasks,
                   awsTasks, zipFile>>
    /\ UNCHANGED <<sumVars, pureVars>>

\* create_output_dir (205): mkdir(parents=True, exist_ok=True); an
\* unwritable base directory raises
CreateOutputDir ==
    /\ pc = "create_output_dir"
    /\ \E writable \in BOOLEAN :
          IF writable
          THEN /\ dirs' = dirs \cup {"root"}
               /\ pc' = "init_logger"
               /\ UNCHANGED <<exitCode, exitCause>>
          ELSE Crash("io") /\ UNCHANGED dirs
    /\ UNCHANGED <<files, log, stdout, localList, awsList, localTasks, awsTasks,
                   zipFile>>
    /\ UNCHANGED <<sumVars, pureVars>>

\* init_logger, "Script started.", save_env_metadata (207-209)
InitLogger ==
    /\ pc = "init_logger"
    /\ log' = log \cup {<<"INFO", "Logger initialized.", "">>,
                        <<"INFO", "Script started.", "">>,
                        <<"INFO", "Environment metadata saved.", "">>}
    /\ files' = files \cup {"env_metadata.json"}
    /\ pc' = "local_collectors"
    /\ UNCHANGED <<exitCode, exitCause, dirs, stdout, localList, awsList, localTasks,
                   awsTasks, zipFile>>
    /\ UNCHANGED <<sumVars, pureVars>>

\* local_collectors = args.collectors or config["collectors"]["local"] (212),
\* for a run whose list is one of lists
ReadLocalCollectorsOf(lists) ==
    /\ pc = "local_collectors"
    /\ \E argCollectors \in BOOLEAN, inConfig \in BOOLEAN :
          IF argCollectors \/ inConfig
          THEN /\ \E l \in lists : localList' = l
               /\ pc' = "mkdir_local"
               /\ UNCHANGED <<exitCode, exitCause>>
          ELSE Crash("config") /\ UNCHANGED localList
    /\ UNCHANGED <<dirs, files, log, stdout, awsList, localTasks, awsTasks, zipFile>>
    /\ UNCHANGED <<sumVars, pureVars>>

ReadLocalCollectors == ReadLocalCollectorsOf(LocalLists)

\* local_path.mkdir(exist_ok=True) (213-214)
MkdirLocal_skipped ==
    /\ pc = "mkdir_local"
    /\ pc' = "submit_local"
    /\ UNCHANGED <<exitCode, exitCause, dirs, files, log, stdout, localList, awsList,
                   localTasks, awsTasks, zipFile>>
    /\ UNCHANGED <<sumVars, pureVars>>

MkdirLocal ==
    /\ pc = "mkdir_local"
    /\ dirs' = dirs \cup {"local"}
    /\ pc' = "submit_local"
    /\ UNCHANGED <<exitCode, exitCause, files, log, stdout, localList, awsList,
                   localTasks, awsTasks, zipFile>>
    /\ UNCHANGED <<sumVars, pureVars>>

\* futures = {executor.submit(run_local_collector, c, local_path): ...} (218)
SubmitLocal ==
    /\ pc = "submit_local"
    /\ localTasks' = Submit(localList)
    /\ pc' = "wait_local"
    /\ UNCHANGED <<exitCode, exitCause, dirs, files, log, stdout, localList, awsList,
                   awsTasks, zipFile>>
    /\ UNCHANGED <<sumVars, pureVars>>

\* a worker thread of the local pool takes a work item
LocalStart(i) ==
    /\ CanStart(localTasks, i, LocalMaxWorkers)
    /\ localTasks' = [localTasks EXCEPT ![i] = Started(@)]
    /\ UNCHANGED <<pc, exitCode, exitCause, dirs, files, log, stdout, localList,
                   awsList, awsTasks, zipFile>>
    /\ UNCHANGED <<sumVars, pureVars>>

\* run_local_collector returns in its worker thread
LocalFinish(i) ==
    /\ i \in Running(localTasks)
    /\ \E ext \in LocalExt(localTasks[i].name) :
          LET r == run_local_collector(localTasks[i].name, "local" \in dirs, ext)
          IN  /\ localTasks' = [localTasks EXCEPT ![i] = Finished(@, ext, r)]
              /\ files' = files \cup r.files
              /\ log' = log \cup r.logs
    /\ UNCHANGED <<pc, exitCode, exitCause, dirs, stdout, localList, awsList,
                   awsTasks, zipFile>>
    /\ UNCHANGED <<sumVars, pureVars>>

\* leaving the pool without waiting for its futures
WaitLocal_nowait ==
    /\ pc = "wait_local"
    /\ pc' = "no_aws"
    /\ UNCHANGED <<exitCode, exitCause, dirs, files, log, stdout, localList, awsList,
                   localTasks, awsTasks, zipFile>>
    /\ UNCHANGED <<sumVars, pureVars>>

\* for _ in as_completed(futures): pass, and the end of the with block
\* (shutdown(wait=True)) (219-220); no future's result is ever read
WaitLocal ==
    /\ pc = "wait_local"
    /\ Unfinished(localTasks) = {}
    /\ pc' = "no_aws"
    /\ UNCHANGED <<exitCode, exitCause, dirs, files, log, stdout, localList, awsList,
                   localTasks, awsTasks, zipFile>>
    /\ UNCHANGED <<sumVars, pureVars>>

\* if not args.no_aws (223)
CheckNoAws ==
    /\ pc = "no_aws"
    /\ \E noAws \in BOOLEAN : pc' = IF noAws THEN "report" ELSE "aws_config"
    /\ UNCHANGED <<exitCode, exitCause, dirs, files, log, stdout, localList, awsList,
                   localTasks, awsTasks, zipFile>>
    /\ UNCHANGED <<sumVars, pureVars>>

\* config["collectors"].get("aws", []), args.aws_profile or
\* config["aws"]["profile"], config["aws"]["region"] (224-226), for a run
\* whose AWS list is one of lists
ReadAwsConfigOf(lists) ==
    /\ pc = "aws_config"
    /\ \E argProfile \in BOOLEAN, profileInConfig \in BOOLEAN, regionInConfig \in BOOLEAN :
          IF (argProfile \/ profileInConfig) /\ regionInConfig
          THEN /\ \E l \in lists : awsList' = l
               /\ pc' = "mkdir_aws"
               /\ UNCHANGED <<exitCode, exitCause>>
          ELSE Crash("config") /\ UNCHANGED awsList
    /\ UNCHANGED <<dirs, files, log, stdout, localList, localTasks, awsTasks, zipFile>>
    /\ UNCHANGED <<sumVars, pureVars>>

ReadAwsConfig == ReadAwsConfigOf(AwsLists)

\* aws_path.mkdir(exist_ok=True) (228-229)
MkdirAws ==
    /\ pc = "mkdir_aws"
    /\ dirs' = dirs \cup {"aws"}
    /\ pc' = "submit_aws"
    /\ UNCHANGED <<exitCode, exitCause, files, log, stdout, localList, awsList,
                   localTasks, awsTasks, zipFile>>
    /\ UNCHANGED <<sumVars, pureVars>>

\* futures = {executor.submit(run_aws_collector, c, ...): ...} (233)
SubmitAws ==
    /\ pc = "submit_aws"
    /\ awsTasks' = Submit(awsList)
    /\ pc' = "wait_aws"
    /\ UNCHANGED <<exitCode, exitCause, dirs, files, log, stdout, localList, awsList,
                   localTasks, zipFile>>
    /\ UNCHANGED <<sumVars, pureVars>>

AwsStart(i) ==
    /\ CanStart(awsTasks, i, AwsMaxWorkers)
    /\ awsTasks' = [awsTasks EXCEPT ![i] = Started(@)]
    /\ UNCHANGED <<pc, exitCode, exitCause, dirs, files, log, stdout, localList,
                   awsList, localTasks, zipFile>>
    /\ UNCHANGED <<sumVars, pureVars>>

AwsFinish(i) ==
    /\ i \in Running(awsTasks)
    /\ \E ext \in AwsExt(awsTasks[i].name) :
          LET r == run_aws_collector(awsTasks[i].name, "aws" \in dirs, ext)
          IN  /\ awsTasks' = [awsTasks EXCEPT ![i] = Finished(@, ext, r)]
              /\ files' = files \cup r.files
              /\ log' = log \cup r.logs
    /\ UNCHANGED <<pc, exitCode, exitCause, dirs, stdout, localList, awsList,
                   localTasks, zipFile>>
    /\ UNCHANGED <<sumVars, pureVars>>

\* as_completed and the end of the with block (234-235)
WaitAws ==
    /\ pc = "wait_aws"
    /\ Unfinished(awsTasks) = {}
    /\ pc' = "report"
    /\ UNCHANGED <<exitCode, exitCause, dirs, files, log, stdout, localList, awsList,
                   localTasks, awsTasks, zipFile>>
    /\ UNCHANGED <<sumVars, pureVars>>

\* print("Evidence collected in: ...") (237)
Report ==
    /\ pc = "report"
    /\ stdout' = Append(stdout, "Evidence collected in: <workspace>")
    /\ pc' = "zip_evidence"
    /\ UNCHANGED <<exitCode, exitCause, dirs, files, log, localList, awsList,
                   localTasks, awsTasks, zipFile>>
    /\ UNCHANGED <<sumVars, pureVars>>

\* zip_evidence without its try/except: make_archive's exception reaches main
ZipEvidence_nocatch ==
    /\ pc = "zip_evidence"
    /\ \E archived \in BOOLEAN :
          IF archived
          THEN /\ zipFile' = "<workspace>.zip"
               /\ log' = log \cup {<<"INFO", "Evidence successfully zipped", "<workspace>.zip">>}
               /\ pc' = "zip_report"
               /\ UNCHANGED <<exitCode, exitCause>>
          ELSE Crash("archive") /\ UNCHANGED <<zipFile, log>>
    /\ UNCHANGED <<dirs, files, stdout, localList, awsList, localTasks, awsTasks>>
    /\ UNCHANGED <<sumVars, pureVars>>

\* zip_file = zip_evidence(output_path) (21-29, 242): any exception of
\* shutil.make_archive is logged and None is returned
ZipEvidence ==
    /\ pc = "zip_evidence"
    /\ \E archived \in BOOLEAN :
          IF archived
          THEN /\ zipFile' = "<workspace>.zip"
               /\ log' = log \cup {<<"INFO", "Evidence successfully zipped", "<workspace>.zip">>}
          ELSE /\ zipFile' = "None"
               /\ log' = log \cup {<<"ERROR", "Failed to create ZIP archive", "">>}
    /\ pc' = "zip_report"
    /\ UNCHANGED <<exitCode, exitCause, dirs, files, stdout, localList, awsList,
                   localTasks, awsTasks>>
    /\ UNCHANGED <<sumVars, pureVars>>

\* if zip_file: print(...) else: print(...) (243-246)
ZipReport ==
    /\ pc = "zip_report"
    /\ stdout' = Append(stdout, IF zipFile # "None" THEN "Evidence zipped: <workspace>.zip"
                                ELSE "Failed to create ZIP archive.")
    /\ pc' = "final_report"
    /\ UNCHANGED <<exitCode, exitCause, dirs, files, log, localList, awsList,
                   localTasks, awsTasks, zipFile>>
    /\ UNCHANGED <<sumVars, pureVars>>

\* print("Evidence collected in: ...") (248) and the return of main
FinalReport ==
    /\ pc = "final_report"
    /\ stdout' = Append(stdout, "Evidence collected in: <workspace>")
    /\ pc' = "done"
    /\ exitCode' = 0
    /\ exitCause' = "normal"
    /\ UNCHANGED <<dirs, files, log, localList, awsList, localTasks, awsTasks, zipFile>>
    /\ UNCHANGED <<sumVars, pureVars>>

Next ==
    \/ LoadConfig
    \/ ReadBaseDir
    \/ CreateOutputDir
    \/ InitLogger
    \/ ReadLocalCollectors
    \/ MkdirLocal
    \/ SubmitLocal
    \/ \E i \in 1..Len(localTasks) : LocalStart(i)
    \/ \E i \in 1..Len(localTasks) : LocalFinish(i)
    \/ WaitLocal
    \/ CheckNoAws
    \/ ReadAwsConfig
    \/ MkdirAws
    \/ SubmitAws
    \/ \E i \in 1..Len(awsTasks) : AwsStart(i)
    \/ \E i \in 1..Len(awsTasks) : AwsFinish(i)
    \/ WaitAws
    \/ Report
    \/ ZipEvidence
    \/ ZipReport
    \/ FinalReport

Spec == Init /\ [][Next]_vars

\* collect.py given lists longer than its pools are wide
ReadLocalCollectorsPool == ReadLocalCollectorsOf(PoolLocalLists)
ReadAwsConfigPool == ReadAwsConfigOf(PoolAwsLists)

NextPool ==
    \/ LoadConfig
    \/ ReadBaseDir
    \/ CreateOutputDir
    \/ InitLogger
    \/ ReadLocalCollectorsPool
    \/ MkdirLocal
    \/ SubmitLocal
    \/ \E i \in 1..Len(localTasks) : LocalStart(i)
    \/ \E i \in 1..Len(localTasks) : LocalFinish(i)
    \/ WaitLocal
    \/ CheckNoAws
    \/ ReadAwsConfigPool
    \/ MkdirAws
    \/ SubmitAws
    \/ \E i \in 1..Len(awsTasks) : AwsStart(i)
    \/ \E i \in 1..Len(awsTasks) : AwsFinish(i)
    \/ WaitAws
    \/ Report
    \/ ZipEvidence
    \/ ZipReport
    \/ FinalReport

SpecPool == Init /\ [][NextPool]_vars

----------------------------------------------------------------------------
(* generate_summary.py *)

\* the evidence files the summary reads
S3File == "aws/s3_buckets.json"
SgFile == "aws/security_groups.json"
ProcessesFile == "local/processes.txt"
CrontabFile == "local/crontab.txt"
PackagesFile == "local/packages.txt"
EvidenceFiles == {S3File, SgFile, ProcessesFile, CrontabFile, PackagesFile}

Bytes == {0, 1}
ArchiveContents == SeqsUpTo(Bytes, MaxArchiveLen)

Min(a, b) == IF a <= b THEN a ELSE b

\* hashlib.sha256(): the initial state of the running hash
Sha256New == 0

\* sha256.update(block): the bytes of the block are folded in, in order
RECURSIVE Sha256Update(_, _)
Sha256Update(h, block) ==
    IF block = <<>> THEN h
    ELSE Sha256Update((3 * h + Head(block) + 1) % HashMod, Tail(block))

HexDigits == <<"0", "1", "2", "3", "4", "5", "6", "7", "8", "9",
               "a", "b", "c", "d", "e", "f">>

\* sha256.hexdigest(): the state as lowercase hexadecimal digits
HexDigest(h) == <<HexDigits[(h \div 16) + 1], HexDigits[(h % 16) + 1]>>

\* f.read(4096) at offset pos: at most BlockSize bytes, <<>> at end of file
ReadBlock(content, pos) == SubSeq(content, pos + 1, Min(pos + BlockSize, Len(content)))

\* a read loop that stops at the first short block and drops it
RECURSIVE ReadLoop_dropshort(_, _, _)
ReadLoop_dropshort(content, pos, h) ==
    LET block == ReadBlock(content, pos)
    IN  IF Len(block) < BlockSize THEN h
        ELSE ReadLoop_dropshort(content, pos + Len(block), Sha256Update(h, block))

\* for block in iter(lambda: f.read(4096), b""): sha256.update(block)
RECURSIVE ReadLoop(_, _, _)
ReadLoop(content, pos, h) ==
    LET block == ReadBlock(content, pos)
    IN  IF block = <<>> THEN h
        ELSE ReadLoop(content, pos + Len(block), Sha256Update(h, block))

sha256_checksum_dropshort(content) == HexDigest(ReadLoop_dropshort(content, 0, Sha256New))

sha256_checksum(content) == HexDigest(ReadLoop(content, 0, Sha256New))

\* f"audit_evidence_{timestamp}_{hostname}.tar.gz"
ArchiveName(now) == <<"audit_evidence_", now, "_", "host", ".tar.gz">>

\* the paths generate_summary.py is given: the workspace itself as the
\* working directory, a directory of the working directory, a deeper one
OutputPaths == {<<>>, <<"ws">>, <<"base", "ws">>}

\* Path.parent: the path without its last component; "." is its own parent
Parent(path) == IF path = <<>> THEN <<>> ELSE SubSeq(path, 1, Len(path) - 1)

\* path is dir or lies below it
IsInside(path, dir) ==
    Len(path) >= Len(dir) /\ SubSeq(path, 1, Len(dir)) = dir

\* the files of output_path.parent that tar.add(output_path) meets while it
\* walks the workspace: none unless that directory is the workspace itself;
\* the archive being written is skipped
StrayMembers(now) ==
    IF IsInside(Parent(outputPath), outputPath)
    THEN ((DOMAIN baseFiles) \ {ArchiveName(now)})
         \cup (IF manifest # {} THEN {<<"manifest.txt">>} ELSE {})
    ELSE {}

\* f"{archive_path.name} SHA256: {checksum}\n"
ManifestLine(name, digest) == <<name, " SHA256: ", digest>>

\* the file of that name written (created or replaced) with that content
WriteFile(dir, name, content) ==
    [n \in DOMAIN dir \cup {name} |-> IF n = name THEN content ELSE dir[n]]

\* the finding a counter reports: 0 for a missing file, else what the file's
\* content yields (the content is not modelled)
CounterValues(file) == IF file \in wsFiles THEN 0..MaxCount ELSE {0}

\* the workspace is given with any subset of its evidence files present
InitSummary ==
    /\ CollectStart("off")
    /\ \E path \in OutputPaths, present \in SUBSET EvidenceFiles :
          SummaryStart("summarize", path, present)
    /\ PureOff

\* an exception nobody catches ends the pass
SummaryCrash ==
    /\ spc' = "crashed"
    /\ sumExit' = 1

\* the clock advances
Tick ==
    /\ spc \notin {"off", "done", "crashed"}
    /\ clock < MaxClock
    /\ clock' = clock + 1
    /\ UNCHANGED <<outputPath, spc, wsFiles, summaryMd, baseFiles, archivePath, checksum,
                   manifest, sumExit>>
    /\ UNCHANGED <<collectVars, pureVars>>

\* the files summarize_local reads
LocalEvidence == {ProcessesFile, CrontabFile, PackagesFile}

\* open() / read_text() of a file that does not exist raises FileNotFoundError
OpenRaises(file) == file \notin wsFiles

\* summarize_local opening its files whether they exist or not
summarize_local_raises_unchecked == \E f \in LocalEvidence : OpenRaises(f)

\* summarize_local (32-57) raises: each file is opened only if exists() says
\* it is there.  (The two AWS counts catch every exception themselves.)
summarize_local_raises == \E f \in LocalEvidence : f \in wsFiles /\ OpenRaises(f)

\* the counts, summarize_local and the write of summary.md (80-100)
WriteSummary ==
    /\ spc = "summarize"
    /\ IF summarize_local_raises
       THEN SummaryCrash /\ UNCHANGED summaryMd
       ELSE /\ \E public_s3 \in CounterValues(S3File), open_sgs \in CounterValues(SgFile),
                  process_count \in CounterValues(ProcessesFile),
                  crontab_present \in CounterValues(CrontabFile),
                  package_count \in CounterValues(PackagesFile) :
                  summaryMd' = << <<public_s3, open_sgs, process_count,
                                    crontab_present > 0, package_count>> >>
            /\ spc' = "create_archive"
            /\ UNCHANGED sumExit
    /\ UNCHANGED <<outputPath, clock, wsFiles, baseFiles, archivePath, checksum, manifest>>
    /\ UNCHANGED <<collectVars, pureVars>>

\* the archive made before the summary: the pass starts with create_archive
CreateArchive_first ==
    /\ spc = "summarize"
    /\ \E content \in ArchiveContents :
          baseFiles' = WriteFile(baseFiles, ArchiveName(clock),
                                 [members |-> wsFiles, strays |-> StrayMembers(clock),
                                  bytes |-> content])
    /\ archivePath' = ArchiveName(clock)
    /\ spc' = "checksum"
    /\ UNCHANGED <<outputPath, clock, wsFiles, summaryMd, checksum, manifest, sumExit>>
    /\ UNCHANGED <<collectVars, pureVars>>

\* create_archive (59-66, 103): the workspace tree is written to
\* audit_evidence_<now>_<host>.tar.gz beside the workspace; an error of
\* tarfile leaves main with what was written so far
CreateArchive ==
    /\ spc = "create_archive"
    /\ \E content \in ArchiveContents, written \in BOOLEAN :
          /\ baseFiles' = WriteFile(baseFiles, ArchiveName(clock),
                                    [members |-> wsFiles \cup {"summary.md"},
                                     strays |-> StrayMembers(clock),
                                     bytes |-> content])
          /\ IF written
             THEN /\ archivePath' = ArchiveName(clock)
                  /\ spc' = "checksum"
                  /\ UNCHANGED sumExit
             ELSE SummaryCrash /\ UNCHANGED archivePath
    /\ UNCHANGED <<outputPath, clock, wsFiles, summaryMd, checksum, manifest>>
    /\ UNCHANGED <<collectVars, pureVars>>

\* checksum = sha256_checksum(archive_path) (68-73, 106)
Checksum ==
    /\ spc = "checksum"
    /\ \E readable \in BOOLEAN :
          IF readable
          THEN /\ checksum' = sha256_checksum(baseFiles[archivePath].bytes)
               /\ spc' = "manifest"
               /\ UNCHANGED sumExit
          ELSE SummaryCrash /\ UNCHANGED checksum
    /\ UNCHANGED <<outputPath, clock, wsFiles, summaryMd, baseFiles, archivePath, manifest>>
    /\ UNCHANGED <<collectVars, pureVars>>

\* manifest.txt is opened with "w" and gets one line (107-109)
WriteManifest ==
    /\ spc = "manifest"
    /\ \E writable \in BOOLEAN :
          IF writable
          THEN /\ manifest' = {ManifestLine(archivePath, checksum)}
               /\ spc' = "print"
               /\ UNCHANGED sumExit
          ELSE SummaryCrash /\ UNCHANGED manifest
    /\ UNCHANGED <<outputPath, clock, wsFiles, summaryMd, baseFiles, archivePath, checksum>>
    /\ UNCHANGED <<collectVars, pureVars>>

\* the three prints (111-113) and the return of main
PrintSummary ==
    /\ spc = "print"
    /\ spc' = "done"
    /\ sumExit' = 0
    /\ UNCHANGED <<outputPath, clock, wsFiles, summaryMd, baseFiles, archivePath, checksum,
                   manifest>>
    /\ UNCHANGED <<collectVars, pureVars>>

NextSummary ==
    \/ Tick
    \/ WriteSummary
    \/ CreateArchive
    \/ Checksum
    \/ WriteManifest
    \/ PrintSummary

SpecSummary == InitSummary /\ [][NextSummary]_vars

\* generate_summary.py is given a workspace without evidence files
InitRuns ==
    /\ CollectStart("off")
    /\ \E path \in OutputPaths : SummaryStart("summarize", path, {})
    /\ PureOff

\* generate_summary.py is started again on the same workspace: main's locals
\* are new, the files of the workspace and of its parent directory are kept
NextPass ==
    /\ spc \in {"done", "crashed"}
    /\ spc' = "summarize"
    /\ archivePath' = <<>>
    /\ checksum' = <<>>
    /\ sumExit' = -1
    /\ UNCHANGED <<outputPath, clock, wsFiles, summaryMd, baseFiles, manifest>>
    /\ UNCHANGED <<collectVars, pureVars>>

NextRuns ==
    \/ Tick
    \/ WriteSummary
    \/ CreateArchive
    \/ Checksum
    \/ WriteManifest
    \/ PrintSummary
    \/ NextPass

\* repeated summary passes over one workspace
SpecRuns == InitRuns /\ [][NextRuns]_vars

----------------------------------------------------------------------------
(* The derivations of generate_summary.py, each called on its own *)

\* dict.get(key, default)
Get(d, key, default) == IF key \in DOMAIN d THEN d[key] ELSE default

\* entries of IpRanges: open to the world, a private range, no CidrIp key
OpenRange == [CidrIp |-> "0.0.0.0/0"]
PrivateRange == [CidrIp |-> "10.0.0.0/8"]
NoCidrRange == [Description |-> "peer"]

RangeLists ==
    {<<>>, <<OpenRange>>, <<PrivateRange>>, <<NoCidrRange>>, <<OpenRange, OpenRange>>,
     <<PrivateRange, OpenRange>>}

\* entries of IpPermissions, with and without an IpRanges key
Permissions == {[IpProtocol |-> "tcp"]} \cup {[IpRanges |-> r] : r \in RangeLists}

PermissionLists ==
    {<<>>} \cup {<<p>> : p \in Permissions}
           \cup {<<[IpRanges |-> <<OpenRange>>], p>> : p \in Permissions}

\* security groups, with and without an IpPermissions key
Groups == {[GroupId |-> "sg-0"]} \cup {[IpPermissions |-> p] : p \in PermissionLists}

\* security_groups.json: a list of groups, or text json.loads rejects
SgFiles ==
    {[json |-> TRUE, data |-> l] : l \in SeqsUpTo(Groups, MaxGroups)}
        \cup {[json |-> FALSE, data |-> <<>>]}

\* for ip_range in perm.get('IpRanges', []) (25-27)
RECURSIVE LoopRanges(_, _, _)
LoopRanges(ranges, i, count) ==
    IF i > Len(ranges) THEN count
    ELSE LoopRanges(ranges, i + 1,
                    IF Get(ranges[i], "CidrIp", "None") = "0.0.0.0/0"
                    THEN count + 1 ELSE count)

\* for perm in sg.get('IpPermissions', []) (24)
RECURSIVE LoopPermissions(_, _, _)
LoopPermissions(perms, i, count) ==
    IF i > Len(perms) THEN count
    ELSE LoopPermissions(perms, i + 1,
                         LoopRanges(Get(perms[i], "IpRanges", <<>>), 1, count))

\* a loop over the groups that adds one for a group with an open entry
RECURSIVE LoopGroups_pergroup(_, _, _)
LoopGroups_pergroup(sgs, i, count) ==
    IF i > Len(sgs) THEN count
    ELSE LoopGroups_pergroup(sgs, i + 1,
            IF LoopPermissions(Get(sgs[i], "IpPermissions", <<>>), 1, 0) > 0
            THEN count + 1 ELSE count)

\* for sg in sgs (23)
RECURSIVE LoopGroups(_, _, _)
LoopGroups(sgs, i, count) ==
    IF i > Len(sgs) THEN count
    ELSE LoopGroups(sgs, i + 1,
                    LoopPermissions(Get(sgs[i], "IpPermissions", <<>>), 1, count))

count_open_security_groups_pergroup(sg_file) ==
    IF sg_file.json THEN LoopGroups_pergroup(sg_file.data, 1, 0) ELSE 0

\* count_open_security_groups (19-30): json.loads raising leaves count at 0
count_open_security_groups(sg_file) ==
    IF sg_file.json THEN LoopGroups(sg_file.data, 1, 0) ELSE 0

\* the characters of crontab.txt: two kinds of whitespace and a printing one
CrontabChars == {" ", "\n", "x"}
Whitespace == {" ", "\n"}

\* crontab.txt: absent, or a text of up to MaxCrontabLen characters
CrontabFiles ==
    {[exists |-> TRUE, text |-> t] : t \in SeqsUpTo(CrontabChars, MaxCrontabLen)}
        \cup {[exists |-> FALSE, text |-> <<>>]}

\* str.lstrip()
RECURSIVE LStrip(_)
LStrip(text) ==
    IF text # <<>> /\ Head(text) \in Whitespace THEN LStrip(Tail(text)) ELSE text

\* str.rstrip()
RECURSIVE RStrip(_)
RStrip(text) ==
    IF text # <<>> /\ text[Len(text)] \in Whitespace
    THEN RStrip(SubSeq(text, 1, Len(text) - 1))
    ELSE text

\* str.strip()
Strip(text) == RStrip(LStrip(text))

\* bool(content) of the text as read, without strip()
crontab_present_nostrip(crontab_file) ==
    IF crontab_file.exists THEN crontab_file.text # <<>> ELSE FALSE

\* summarize_local (42-48): bool(read_text().strip()) if the file exists
crontab_present(crontab_file) ==
    IF crontab_file.exists THEN Strip(crontab_file.text) # <<>> ELSE FALSE

\* a derivation is about to be called on a file
InitPure ==
    /\ CollectStart("off")
    /\ SummaryStart("off", <<>>, {})
    /\ fpc = "call"
    /\ \/ fname = "count_open_security_groups" /\ farg \in SgFiles
       \/ fname = "crontab_present" /\ farg \in CrontabFiles
    /\ fresult = <<>>

CallCountOpenSecurityGroups ==
    /\ fpc = "call"
    /\ fname = "count_open_security_groups"
    /\ fresult' = count_open_security_groups(farg)
    /\ fpc' = "returned"
    /\ UNCHANGED <<fname, farg, collectVars, sumVars>>

CallCrontabPresent ==
    /\ fpc = "call"
    /\ fname = "crontab_present"
    /\ fresult' = crontab_present(farg)
    /\ fpc' = "returned"
    /\ UNCHANGED <<fname, farg, collectVars, sumVars>>

NextPure == CallCountOpenSecurityGroups \/ CallCrontabPresent

SpecPure == InitPure /\ [][NextPure]_vars

----------------------------------------------------------------------------
(* Properties of the collection run *)

\* main has left the local pool's with block
AfterLocalPool ==
    pc \in {"no_aws", "aws_config", "mkdir_aws", "submit_aws", "wait_aws", "report",
            "zip_evidence", "zip_report", "final_report", "done"}

\* main is past the AWS family (run, or skipped by --no-aws)
AfterAwsPool == pc \in {"report", "zip_evidence", "zip_report", "final_report", "done"}

\* sealing has started
Sealing == pc \in {"zip_evidence", "zip_report", "final_report", "done"}

TasksOf(tasks) == {tasks[i] : i \in 1..Len(tasks)}
AllTasks == TasksOf(localTasks) \cup TasksOf(awsTasks)

\* the entry was invoked once and returned one pair (name, error-or-None)
ExactlyOnce(t, name) ==
    /\ t.name = name
    /\ t.st = "done"
    /\ t.runs = 1
    /\ Len(t.outcomes) = 1
    /\ t.outcomes[1][1] = name
    /\ t.outcomes[1][2] \in {"None", "Exception"}

\* the collector function raised inside its wrapper
Raised(t) == t.st = "done" /\ t.ext = "other_error"

\* C1: once a family's pool has finished, every entry of the submitted list
\* has been invoked exactly once and has exactly one outcome (name, error or
\* None), however many collectors failed; no entry is ever run twice.
C1_OneOutcomePerEntry ==
    /\ \A t \in AllTasks : t.runs <= 1 /\ Len(t.outcomes) <= 1
    /\ AfterLocalPool =>
          /\ Len(localTasks) = Len(localList)
          /\ \A i \in 1..Len(localList) : ExactlyOnce(localTasks[i], localList[i])
    /\ (AfterAwsPool /\ awsList # <<>>) =>
          /\ Len(awsTasks) = Len(awsList)
          /\ \A i \in 1..Len(awsList) : ExactlyOnce(awsTasks[i], awsList[i])

\* a finished run whose two lists repeat a name and whose collectors all failed
C1_Witness ==
    /\ pc = "done"
    /\ Len(localList) >= 2 /\ localList[1] = localList[2]
    /\ Len(awsList) >= 2 /\ awsList[1] = awsList[2]
    /\ \A t \in AllTasks : ExtFailed(t.ext)

\* C2: when a collector raises, the exception stays inside its task: it is
\* recorded as that task's outcome, main does not end abnormally, the other
\* tasks of the pool can still take their steps, and once the pool has
\* finished every task of it is done with its outcome recorded.
C2_FailureIsolated ==
    \A t \in AllTasks : Raised(t) =>
        /\ t.outcomes = <<  <<t.name, "Exception">>  >>
        /\ pc # "crashed"
        /\ Unfinished(awsTasks) # {} =>
              ENABLED (\E j \in 1..Len(awsTasks) : AwsStart(j) \/ AwsFinish(j))
        /\ AfterAwsPool =>
              \A u \in TasksOf(awsTasks) : u.st = "done" /\ Len(u.outcomes) = 1

\* the run is over; the first AWS collector raised, the second one succeeded
C2_Witness ==
    /\ pc = "done"
    /\ Len(awsTasks) >= 2
    /\ Raised(awsTasks[1])
    /\ awsTasks[2].ext = "ok"
    /\ "aws/s3_buckets.json" \in files

\* C3: a collector whose external call failed (command not executed, nonzero
\* exit, client or API error) is recorded with a non-None error.
C3_FailedCallRecordedFailed ==
    \A t \in AllTasks :
        (t.st = "done" /\ ExtFailed(t.ext)) =>
            (Len(t.outcomes) = 1 /\ t.outcomes[1][2] # "None")

\* C4: a name that is not a known name of its family is skipped with a logged
\* warning for that name, without raising, and the other names of the list
\* still get their outcomes.
C4_UnknownNameWarned ==
    AfterLocalPool =>
        \A i \in 1..Len(localList) : localList[i] \notin LocalKnown =>
            /\ \E rec \in log : rec[1] = "WARNING" /\ rec[3] = localList[i]
            /\ pc # "crashed"
            /\ \A j \in 1..Len(localTasks) : Len(localTasks[j].outcomes) = 1

\* C5: main leaves a pool only when every task submitted to it is done, so
\* from the moment sealing starts no collector of either family is pending
\* or running.
C5_Barrier ==
    /\ AfterLocalPool =>
          (Len(localTasks) = Len(localList) /\ Unfinished(localTasks) = {})
    /\ Sealing => (Unfinished(localTasks) = {} /\ Unfinished(awsTasks) = {})
    /\ (Sealing /\ awsList # <<>>) => Len(awsTasks) = Len(awsList)

\* sealing is about to start after two full pools
C5_Witness ==
    /\ pc = "zip_evidence"
    /\ Len(localTasks) = MaxList
    /\ Len(awsTasks) = MaxList

C7_SealFailureNotFatal ==
    /\ exitCause # "archive"
    /\ zipFile = "None" =>
          /\ pc \in {"zip_report", "final_report", "done"}
          /\ <<"ERROR", "Failed to create ZIP archive", "">> \in log
          /\ pc = "done" =>
                /\ exitCode = 0
                /\ stdout[Len(stdout)] = "Evidence collected in: <workspace>"
                /\ stdout[Len(stdout) - 1] = "Failed to create ZIP archive."

\* the run ended after sealing failed
C7_Witness == pc = "done" /\ zipFile = "None" /\ exitCode = 0

\* C9: no two tasks of a run are bound to the same output file, no two
\* running tasks write the same file, and every file a family's collector
\* wrote lies in the family's subdirectory.
C9_NoSharedAssignment ==
    /\ \A i, j \in 1..Len(localTasks) :
          (i # j /\ LocalOutputFile(localTasks[i].name) # "") =>
              LocalOutputFile(localTasks[i].name) # LocalOutputFile(localTasks[j].name)
    /\ \A i, j \in 1..Len(awsTasks) :
          (i # j /\ AwsOutputFile(awsTasks[i].name) # "") =>
              AwsOutputFile(awsTasks[i].name) # AwsOutputFile(awsTasks[j].name)

C9_NoConcurrentWrite ==
    \A i, j \in Running(localTasks) :
        (i # j /\ LocalOutputFile(localTasks[i].name) # "") =>
            LocalOutputFile(localTasks[i].name) # LocalOutputFile(localTasks[j].name)

C9_OwnFamilyDir ==
    files \subseteq {"env_metadata.json"}
                    \cup {LocalOutputFile(t.name) : t \in TasksOf(localTasks)}
                    \cup {AwsOutputFile(t.name) : t \in TasksOf(awsTasks)}

C9_DistinctOutputPaths ==
    C9_NoSharedAssignment /\ C9_NoConcurrentWrite /\ C9_OwnFamilyDir

\* C10: a run that ends on a configuration error ends with a non-zero exit
\* status, with no workspace directory created and no collector run.
C10_ConfigErrorBeforeWorkspace ==
    exitCause = "config" =>
        /\ exitCode # 0
        /\ dirs = {}
        /\ \A t \in AllTasks : t.runs = 0

\* C19: a run that has created its workspace does not end without having
\* attempted to seal it (the finite-run part of "eventually attempts sealing
\* and terminates").
C19_EndsOnlyAfterSealing ==
    (pc \in {"done", "crashed"} /\ "root" \in dirs) => zipFile # "unset"

\* C18: at most 4 local collectors and at most 3 AWS collectors are executing
\* at any moment, however long the collector lists are.
C18_PoolWidth ==
    /\ Cardinality(Running(localTasks)) <= 4
    /\ Cardinality(Running(awsTasks)) <= 3

\* both pools have been full with work still queued
C18_Witness ==
    /\ Cardinality(Running(awsTasks)) = 3
    /\ \E i \in 1..Len(awsTasks) : awsTasks[i].st = "pending"
    /\ Len(localTasks) > 4
    /\ \A i \in 1..Len(localTasks) : localTasks[i].runs = 1

----------------------------------------------------------------------------
(* Properties of the summary pass *)

\* SHA-256 of a whole byte string, hashed in one piece
Sha256Hex(content) == HexDigest(Sha256Update(Sha256New, content))

\* the line names an archive that exists and carries the digest of its bytes
RecordMatches(line) ==
    /\ line[1] \in DOMAIN baseFiles
    /\ line[3] = Sha256Hex(baseFiles[line[1]].bytes)

\* C8: every manifest record names an archive that exists and carries the
\* SHA-256 of that archive's bytes; once the manifest step is over, the
\* manifest holds exactly the record of the archive create_archive produced.
C8_ManifestRoundTrip ==
    /\ \A line \in manifest : RecordMatches(line)
    /\ spc \in {"print", "done"} =>
          /\ archivePath \in DOMAIN baseFiles
          /\ manifest = {ManifestLine(archivePath, Sha256Hex(baseFiles[archivePath].bytes))}

\* the pass is over for an archive whose last block is a short one
C8_Witness ==
    /\ spc = "done"
    /\ manifest # {}
    /\ Len(baseFiles[archivePath].bytes) = MaxArchiveLen
    /\ clock > 0

\* C11: the archive's filename is fixed by the workspace name alone: every
\* archive made of the one workspace of these runs, at whatever moment, has
\* the same filename.
C11_NameFromWorkspaceAlone ==
    \A n1, n2 \in DOMAIN baseFiles : n1 = n2

\* C20: the manifest record of an archive (a line naming an archive that
\* exists, with the digest of its bytes) is never modified or removed, by the
\* same pass or by a later pass over the same base directory.
C20_ManifestImmutable ==
    [][\A line \in manifest : RecordMatches(line) => line \in manifest']_vars

\* C13: once create_archive has returned, an error of the checksum or of the
\* manifest write does not end the pass with that error.
C13_ChecksumErrorRecoverable ==
    archivePath # <<>> => (spc # "crashed" /\ sumExit # 1)

\* the findings written to summary.md
Findings == summaryMd[1]

\* C14: the summary never raises on missing inputs: the pass never ends
\* before summary.md is written, and summary.md reports 0 for every count
\* whose file is missing and FALSE for crontab-present.
C14_MissingInputsTolerated ==
    /\ spc = "crashed" => summaryMd # <<>>
    /\ summaryMd # <<>> =>
          /\ S3File \notin wsFiles => Findings[1] = 0
          /\ SgFile \notin wsFiles => Findings[2] = 0
          /\ ProcessesFile \notin wsFiles => Findings[3] = 0
          /\ CrontabFile \notin wsFiles => Findings[4] = FALSE
          /\ PackagesFile \notin wsFiles => Findings[5] = 0

\* the pass is over for a workspace with no evidence file at all
C14_Witness ==
    /\ spc = "done"
    /\ wsFiles = {}
    /\ summaryMd = << <<0, 0, 0, FALSE, 0>> >>

\* C17: the summary is made from the live workspace before it is archived:
\* no archive exists until summary.md is written, and every archive holds
\* summary.md beside exactly the evidence files the summary was made from.
C17_SummaryBeforeArchive ==
    /\ spc = "summarize" => (baseFiles = <<>> /\ summaryMd = <<>>)
    /\ baseFiles # <<>> => summaryMd # <<>>
    /\ \A n \in DOMAIN baseFiles :
          baseFiles[n].members = wsFiles \cup {"summary.md"}

\* the pass is over for a workspace holding every evidence file
C17_Witness ==
    /\ spc = "done"
    /\ wsFiles = EvidenceFiles
    /\ summaryMd # <<>>
    /\ archivePath \in DOMAIN baseFiles

\* C12: sealing leaves the workspace as it was: zip_evidence, create_archive,
\* the checksum and the manifest write change no directory and no file of the
\* workspace, and the archive and the manifest are written outside the
\* workspace's subtree.
C12_SealingLeavesWorkspace ==
    [][/\ pc = "zip_evidence" => (dirs' = dirs /\ files' = files)
       /\ spc \in {"create_archive", "checksum", "manifest"} =>
             /\ wsFiles' = wsFiles
             /\ summaryMd' = summaryMd
             /\ ~IsInside(Parent(outputPath), outputPath)]_vars

\* the permissions of group g, the ranges of its permission p
PermissionsOf(sgs, g) ==
    IF "IpPermissions" \in DOMAIN sgs[g] THEN sgs[g].IpPermissions ELSE <<>>
RangesOf(sgs, g, p) ==
    IF "IpRanges" \in DOMAIN PermissionsOf(sgs, g)[p]
    THEN PermissionsOf(sgs, g)[p].IpRanges ELSE <<>>

\* the places <<group, permission, range>> of the entries with CidrIp 0.0.0.0/0
OpenEntries(sgs) ==
    {e \in (1..Len(sgs)) \X (1..2) \X (1..2) :
        /\ e[2] <= Len(PermissionsOf(sgs, e[1]))
        /\ e[3] <= Len(RangesOf(sgs, e[1], e[2]))
        /\ "CidrIp" \in DOMAIN RangesOf(sgs, e[1], e[2])[e[3]]
        /\ RangesOf(sgs, e[1], e[2])[e[3]].CidrIp = "0.0.0.0/0"}

\* C15: for every list of security groups count_open_security_groups returns
\* the number of range entries with CidrIp 0.0.0.0/0, over all permissions of
\* all groups.
C15_CountsOpenEntries ==
    (fpc = "returned" /\ fname = "count_open_security_groups" /\ farg.json) =>
        fresult = Cardinality(OpenEntries(farg.data))

\* two groups, one with two open entries and one with none, give 2
C15_Witness ==
    /\ fpc = "returned"
    /\ fname = "count_open_security_groups"
    /\ farg = [json |-> TRUE,
               data |-> <<[IpPermissions |-> <<[IpRanges |-> <<OpenRange, OpenRange>>]>>],
                          [IpPermissions |-> <<>>]>>]
    /\ fresult = 2

\* C16: crontab_present is true exactly if crontab.txt exists and holds a
\* character that is not whitespace.
C16_CrontabPresent ==
    (fpc = "returned" /\ fname = "crontab_present") =>
        (fresult <=> /\ farg.exists
                     /\ \E i \in 1..Len(farg.text) : farg.text[i] \notin Whitespace)

\* a crontab.txt of whitespace only is reported as no crontab
C16_Witness ==
    /\ fpc = "returned"
    /\ fname = "crontab_present"
    /\ farg = [exists |-> TRUE, text |-> <<" ", "\n">>]
    /\ fresult = FALSE

====
